---- MODULE Spec2Model ----
(***************************************************************************)
(* Model of the database updater (DBUpdater.cpp): the process-wide SQL     *)
(* client locator, the per-type policy table, and the Create / Populate /  *)
(* Update lifecycle operations with the interactive fallback of ApplyFile. *)
(*                                                                         *)
(* The process is single threaded: one operation runs at a time, and `pc`  *)
(* is the position inside the running operation.  Everything outside the   *)
(* process (the file system, the operator's terminal, the configuration    *)
(* manager, the SQL client's exit status, the download transport) is read  *)
(* at the moment the code reads it, as a choice over the values it can     *)
(* return.  Files the running call wrote or read itself are remembered in  *)
(* `known`, so a later is_regular_file on them is not a free choice.       *)
(***************************************************************************)
EXTENDS Naturals, Sequences, FiniteSets, TLC

(***************************************************************************)
(* Bounds of the exploration                                               *)
(***************************************************************************)
\* deepest nesting of ApplyFile explored (the code itself has no limit)
MaxDepth == 2
\* largest row count SHOW TABLES returns
MaxTables == 1

(***************************************************************************)
(* Policy table: the template specialisations                              *)
(***************************************************************************)
DBTypes == {"Login", "World", "Character", "Hotfix"}

GetConfigEntry(T) ==
    CASE T = "Login"     -> "Updates.Auth"
      [] T = "World"     -> "Updates.World"
      [] T = "Character" -> "Updates.Character"
      [] T = "Hotfix"    -> "Updates.Hotfix"

GetTableName(T) ==
    CASE T = "Login"     -> "Auth"
      [] T = "World"     -> "World"
      [] T = "Character" -> "Character"
      [] T = "Hotfix"    -> "Hotfixes"

\* the generic template alone, without the two specialisations
GetBaseLocationType_Generic(T) ==
    "LOCATION_REPOSITORY"

GetBaseLocationType(T) ==
    CASE T = "World"  -> "LOCATION_DOWNLOAD"
      [] T = "Hotfix" -> "LOCATION_DOWNLOAD"
      [] OTHER        -> "LOCATION_REPOSITORY"

\* BuiltInConfig::GetSourceDirectory(), a build-time string
SourceDirectory == "/src"

\* The values GetBaseFile can return.  The two repository types build a path
\* under the source directory; World and Hotfixes return a build-time string
\* of GitRevision, which may be empty.
GetBaseFile(T) ==
    CASE T = "Login"     -> {SourceDirectory \o "/sql/base/auth_database.sql"}
      [] T = "World"     -> {"", "TDB_full_world.sql"}
      [] T = "Character" -> {SourceDirectory \o "/sql/base/characters_database.sql"}
      [] T = "Hotfix"    -> {"", "TDB_full_hotfixes.sql"}

\* pool.GetConnectionInfo()->database
PoolDatabase(T) ==
    CASE T = "Login"     -> "auth"
      [] T = "World"     -> "world"
      [] T = "Character" -> "characters"
      [] T = "Hotfix"    -> "hotfixes"

\* the downloadUrl local of Populate, chosen from the display name
DownloadUrl(dbName) ==
    CASE dbName = "World"    -> "https://warspire.fpr.net/download/sql/TDB_full_world_1125.25101_2025_10_29.sql"
      [] dbName = "Hotfixes" -> "https://warspire.fpr.net/download/sql/TDB_full_hotfixes_1125.25101_2025_10_29.sql"
      [] OTHER               -> ""

(***************************************************************************)
(* Values read from outside the process                                    *)
(***************************************************************************)
\* lines the operator can type at a [y/N] prompt
Answers == {"y", "Y", "n"}
\* lines the operator can type at the "full path to local SQL file" prompt
LocalFiles == {"", "custom.sql"}
EXIT_SUCCESS == 0
\* exit statuses of the SQL client
ExitStatuses == {0, 1}
\* BuiltInConfig::GetMySQLExecutable()
MySQLExecutable == "mysql"
\* results of Trinity::SearchExecutableInPath("mysql"); "" is not found
SearchResults == {"", "bin/mysql", "/usr/bin/mysql"}
\* boost::filesystem::absolute
Absolute(p) ==
    CASE p = "bin/mysql" -> "/cwd/bin/mysql"
      [] p = "mysql"     -> "/cwd/mysql"
      [] p = ""          -> "/cwd"
      [] OTHER           -> p
\* the scratch file of Create
Temp == "create_table.sql"

VARIABLES
    pc,             \* position of the running operation, "idle" between calls
    op,             \* the operation called last: "Create", "Populate", "Update"
    db,             \* the database type T it was called for
    ret,            \* its return value: "none" while running, "true", "false"
    corrected_path, \* DBUpdaterUtil::corrected_path(), process wide
    known,          \* files this call downloaded or enumerated: they exist
    tables,         \* number of tables of the schema (SHOW TABLES)
    base,           \* Populate: the locals `p` and `base`, "unset" before line 322
    autoUpdate,     \* Populate: the local `autoUpdate` ("unread" before line 341)
    ap,             \* ApplyFile frame: path, database argument, nesting depth
    apResult,       \* how the outermost ApplyFile ended: "none", "ok", "throw"
    checkExe,       \* outcome of CheckExecutable in this call
    srcDir,         \* Update: outcome of is_directory(sourceDirectory)
    scratch,        \* Create: the scratch file: "untouched", "written", "removed"
    invocations,    \* SQL client processes started by this call, in order
    inputs,         \* lines read from the operator by this call, in order
    downloads,      \* DownloadFile calls of this call, in order
    applied,        \* AppliedRecords of the bookkeeping table read last
    appliedDb,      \* the type whose table `applied` is, "none" if unknown
    fx,             \* the UpdateFetcher run of this call
    loc,            \* the executable locator seen from outside: the client
                    \* files on disk and what the CheckExecutable calls did
    conn            \* the build (platform, client library) and the pool's
                    \* connection info, both fixed for the life of the process

locals == <<tables, base, autoUpdate, ap, apResult, checkExe, srcDir, scratch>>
hist   == <<invocations, inputs, downloads>>
book   == <<applied, appliedDb, fx>>
vars   == <<pc, op, db, ret, corrected_path, known, locals, hist, book, loc, conn>>

NoFrame == [path |-> "", database |-> "", depth |-> 0]

IsYes(s) == s = "y" \/ s = "Y"

(***************************************************************************)
(* The argument vector of the SQL client                                   *)
(***************************************************************************)
\* _WIN32 defined or not; the client library the build links against:
\* MariaDB or MySQL before 8.0 ("legacy"), MySQL 8.0 up to 9.3, MySQL 9.4 on
Platforms == {"win32", "unix"}
Clients   == {"legacy", "mysql80", "mysql94"}

Hosts         == {".", "localhost"}
Users         == {"trinity"}
Passwords     == {"", "secret"}
PortOrSockets == {"3306", "33060.sock", "/tmp/mysql.sock", ""}
SslModes      == {"ssl", ""}

Connections ==
    [platform : Platforms, client : Clients, host : Hosts, user : Users,
     password : Passwords, port_or_socket : PortOrSockets, ssl : SslModes]

DefaultConnection ==
    [platform |-> "unix", client |-> "mysql80", host |-> "localhost",
     user |-> "trinity", password |-> "secret", port_or_socket |-> "3306",
     ssl |-> ""]

\* std::isdigit(port_or_socket[0]); the first character of an empty string
\* is the terminating '\0'
IsDigitFirst(port_or_socket) == port_or_socket \in {"3306", "33060.sock"}

OneIf(cond, arg) == IF cond THEN <<arg>> ELSE <<>>

\* the transport arguments, always a plain port
Transport_AlwaysPort(platform, host, port_or_socket) ==
    <<"-P" \o port_or_socket>>

\* the transport arguments: by host on Windows, by port_or_socket elsewhere
Transport(platform, host, port_or_socket) ==
    IF platform = "win32"
    THEN (IF host = "." THEN <<"--protocol=PIPE">>
          ELSE <<"-P" \o port_or_socket>>)
    ELSE (IF ~IsDigitFirst(port_or_socket)
          THEN <<"-P0", "--protocol=SOCKET", "-S" \o port_or_socket>>
          ELSE <<"-P" \o port_or_socket>>)

\* the TLS and client-command arguments the client library needs
TlsArgs(client, ssl) ==
    CASE client = "legacy"  -> OneIf(ssl = "ssl", "--ssl")
      [] client = "mysql80" -> OneIf(ssl = "ssl", "--ssl-mode=REQUIRED")
      [] client = "mysql94" -> OneIf(ssl = "ssl", "--ssl-mode=REQUIRED")
                                  \o <<"--commands=ON">>

SourceCommand(path) == "BEGIN; SOURCE " \o path \o "; COMMIT;"

\* `args` as StartProcess receives it
ApplyFileArgs(c, database, path) ==
    <<"-h" \o c.host, "-u" \o c.user>>
    \o OneIf(c.password # "", "-p" \o c.password)
    \o Transport(c.platform, c.host, c.port_or_socket)
    \o <<"--default-character-set=utf8mb4", "--max-allowed-packet=1GB">>
    \o TlsArgs(c.client, c.ssl)
    \o <<"-e", SourceCommand(path)>>
    \o OneIf(database # "", database)

\* the argument vector of a recorded invocation
ArgsOf(v) == ApplyFileArgs(conn, v.database, v.path)

(***************************************************************************)
(* ExecutableLocator                                                       *)
(***************************************************************************)
GetCorrectedMySQLExecutable ==
    IF corrected_path # "" THEN corrected_path ELSE MySQLExecutable

\* CheckExecutable without the is_regular_file test of the PATH search result
Validate_AnySearchResult(cached, reg, exe, found) ==
    IF reg THEN [ok |-> TRUE, path |-> cached]
    ELSE IF exe # "" THEN [ok |-> TRUE, path |-> Absolute(exe)]
    ELSE [ok |-> FALSE, path |-> cached]

\* CheckExecutable forgetting the corrected path when the search fails
Validate_ClearOnFailure(cached, reg, exe, found) ==
    IF reg THEN [ok |-> TRUE, path |-> cached]
    ELSE IF exe # "" /\ found THEN [ok |-> TRUE, path |-> Absolute(exe)]
    ELSE [ok |-> FALSE, path |-> ""]

\* The body of CheckExecutable: `cached` is corrected_path() on entry, `reg`
\* is is_regular_file of the resolved path, `exe` the result of the PATH
\* search and `found` is is_regular_file(exe).  It gives the return value
\* and corrected_path() on exit.
Validate(cached, reg, exe, found) ==
    IF reg THEN [ok |-> TRUE, path |-> cached]
    ELSE IF exe # "" /\ found THEN [ok |-> TRUE, path |-> Absolute(exe)]
    ELSE [ok |-> FALSE, path |-> cached]

\* CheckExecutable as called at the head of Populate and Update: on success
\* the caller goes on at `next`, on failure the caller returns false.
CheckExecutable(next) ==
    \E reg \in BOOLEAN, exe \in SearchResults, found \in BOOLEAN :
        LET v == Validate(corrected_path, reg, exe, found) IN
        /\ corrected_path' = v.path
        /\ checkExe' = IF v.ok THEN "ok" ELSE "fail"
        /\ pc' = IF v.ok THEN next ELSE "idle"
        /\ ret' = IF v.ok THEN ret ELSE "false"

(***************************************************************************)
(* MigrationFetcher data (UpdateFetcher; its code is not part of the       *)
(* sources at hand, so it follows sections 3 and 4.3 of the specification) *)
(***************************************************************************)
\* largest Updates.CleanDeadRefMaxCount explored
MaxDeadRef == 1

\* migration files the source tree can hold
MigNames == {"001_init.sql", "002_init.sql"}
\* the deterministic sort key of a migration name
NameKey(name) ==
    CASE name = "001_init.sql" -> 1
      [] name = "002_init.sql" -> 2
Hashes == {1, 2}
NoFile == [hash |-> 0, category |-> "NONE"]
\* what the source tree can hold under one name
DiskValues ==
    {NoFile} \cup [hash : Hashes, category : {"ORDINARY"}]
             \cup [hash : {1}, category : {"ARCHIVED"}]
DiskStates == [MigNames -> DiskValues]

NoRecord == [hash |-> 0, state |-> "NONE"]
RecordValues ==
    {NoRecord} \cup [hash : Hashes, state : {"ACTIVE"}]
               \cup [hash : {1}, state : {"ARCHIVED"}]
\* a bookkeeping table: at most one AppliedRecord per name
AppliedStates == [MigNames -> RecordValues]
NoRecords == [n \in MigNames |-> NoRecord]

\* the names of a set in ascending key order
RECURSIVE SortNames(_)
SortNames(S) ==
    IF S = {} THEN <<>>
    ELSE LET first == CHOOSE n \in S : \A m \in S : NameKey(n) <= NameKey(m)
         IN  <<first>> \o SortNames(S \ {first})

\* steps 1 and 2: the MigrationFiles of a source tree, sorted
EnumerateFiles(disk) ==
    LET names == SortNames({n \in MigNames : disk[n] # NoFile})
    IN  [k \in 1..Len(names) |->
            [name |-> names[k], hash |-> disk[names[k]].hash,
             category |-> disk[names[k]].category]]

\* What a run remembers of the run before it, when that run succeeded for the
\* same database and neither the files nor the configuration changed since:
\* the files, the settings, the names whose content was read as not
\* rehash-eligible, and the records the run left.
NoPrevious ==
    [same |-> FALSE, files |-> <<>>, allowRedundancy |-> FALSE,
     allowArchivedRedundancy |-> FALSE, deadRefMaxCount |-> 0,
     noRehash |-> {}, records |-> NoRecords]

NoRun ==
    [ran |-> FALSE, files |-> <<>>, i |-> 0, recent |-> 0, archived |-> 0,
     allowRedundancy |-> FALSE, allowArchivedRedundancy |-> FALSE,
     deadRefMaxCount |-> 0, noRehash |-> {},
     raised |-> "none", log |-> <<>>, writes |-> 0, previous |-> NoPrevious]

(***************************************************************************)
(* Calls.  The caller (DatabaseLoader) is outside this file: it may call   *)
(* any operation for any type, one at a time.                              *)
(***************************************************************************)
Enter(o, T, first, n) ==
    /\ pc = "idle"
    /\ UNCHANGED <<loc, conn>>
    /\ pc' = first
    /\ op' = o
    /\ db' = T
    /\ ret' = "none"
    /\ known' = {}
    /\ tables' = n
    /\ base' = "unset"
    /\ autoUpdate' = "unread"
    /\ ap' = NoFrame
    /\ apResult' = "none"
    /\ checkExe' = "none"
    /\ srcDir' = "none"
    /\ scratch' = "untouched"
    /\ invocations' = <<>>
    /\ inputs' = <<>>
    /\ downloads' = <<>>
    /\ UNCHANGED corrected_path

\* Create and Populate run SQL files against the database, so what the
\* bookkeeping table holds afterwards is not known: the next Update reads it.
CallCreate(T) ==
    /\ Enter("Create", T, "C_open", 0)
    /\ fx' = NoRun
    /\ applied' = NoRecords
    /\ appliedDb' = "none"

CallPopulate(T) ==
    /\ \E n \in 0..MaxTables : Enter("Populate", T, "P_check", n)
    /\ fx' = NoRun
    /\ applied' = NoRecords
    /\ appliedDb' = "none"

\* the run that just ended, as the next run remembers it
Previous(run, records) ==
    [same |-> TRUE, files |-> run.files, allowRedundancy |-> run.allowRedundancy,
     allowArchivedRedundancy |-> run.allowArchivedRedundancy,
     deadRefMaxCount |-> run.deadRefMaxCount, noRehash |-> run.noRehash,
     records |-> records]

\* Update is called again.  When the call before it was an Update of the same
\* database that succeeded, the files and the configuration may be what that
\* run read (`unchanged`); otherwise they are read afresh.
CallUpdate(T) ==
    /\ Enter("Update", T, "U_check", 0)
    /\ \E unchanged \in BOOLEAN :
        /\ unchanged => (op = "Update" /\ db = T /\ ret = "true" /\ fx.ran)
        /\ fx' = IF unchanged
                 THEN [NoRun EXCEPT !.previous = Previous(fx, applied)]
                 ELSE NoRun
    /\ UNCHANGED <<applied, appliedDb>>

(***************************************************************************)
(* ApplyFile                                                               *)
(***************************************************************************)
\* the frame of ApplyFile(pool, path): every argument comes from the pool
ApplyFilePool(T, path, depth) ==
    [path |-> path, database |-> PoolDatabase(T), depth |-> depth]

\* where the caller of the outermost ApplyFile goes on
Continuation ==
    CASE op = "Create"   -> "C_applied"
      [] op = "Populate" -> "P_applied"
      [] op = "Update"   -> "F_applied"

\* what is_regular_file(path) can answer
IsRegularFile(path) ==
    IF path = Temp /\ scratch # "untouched" THEN {scratch = "written"}
    ELSE IF path \in known THEN {TRUE}
    ELSE IF path = "" THEN {FALSE}
    ELSE BOOLEAN

\* Start the SQL client on ap.path and wait for its exit status.  A nested
\* ApplyFile that returns makes every enclosing one return (line 545).
ApplyInvoke ==
    /\ pc = "A_invoke"
    /\ UNCHANGED <<loc, conn>>
    /\ \E st \in ExitStatuses :
        /\ invocations' = Append(invocations,
               [exe |-> GetCorrectedMySQLExecutable, path |-> ap.path,
                database |-> ap.database, status |-> st, exists |-> "unchecked"])
        /\ IF st = EXIT_SUCCESS
           THEN /\ apResult' = "ok"
                /\ pc' = Continuation
           ELSE /\ apResult' = apResult
                /\ pc' = "A_failed"
    /\ UNCHANGED book
    /\ UNCHANGED <<op, db, ret, corrected_path, known, tables, base, autoUpdate,
                   ap, checkExe, srcDir, scratch, inputs, downloads>>

\* ApplyFile starting the client again by itself when the file exists
ApplyFailed_RetryAtOnce ==
    /\ pc = "A_failed"
    /\ UNCHANGED <<loc, conn>>
    /\ \E defaultExists \in IsRegularFile(ap.path) :
        /\ invocations' = [invocations EXCEPT ![Len(invocations)].exists =
                              IF defaultExists THEN "yes" ELSE "no"]
        /\ IF defaultExists
           THEN /\ pc' = IF ap.depth < MaxDepth THEN "A_invoke" ELSE "A_prompt"
                /\ ap' = IF ap.depth < MaxDepth
                         THEN ApplyFilePool(db, ap.path, ap.depth + 1) ELSE ap
                /\ apResult' = apResult
           ELSE /\ pc' = Continuation
                /\ ap' = ap
                /\ apResult' = "throw"
    /\ UNCHANGED book
    /\ UNCHANGED <<op, db, ret, corrected_path, known, tables, base, autoUpdate,
                   checkExe, srcDir, scratch, inputs, downloads>>

\* ret != EXIT_SUCCESS: look for the file.  Without it the exception is
\* thrown, and every enclosing ApplyFile rethrows it (line 543).
ApplyFailed ==
    /\ pc = "A_failed"
    /\ UNCHANGED <<loc, conn>>
    /\ \E defaultExists \in IsRegularFile(ap.path) :
        /\ invocations' = [invocations EXCEPT ![Len(invocations)].exists =
                              IF defaultExists THEN "yes" ELSE "no"]
        /\ IF defaultExists
           THEN /\ pc' = "A_prompt"
                /\ apResult' = apResult
           ELSE /\ pc' = Continuation
                /\ apResult' = "throw"
    /\ UNCHANGED book
    /\ UNCHANGED <<op, db, ret, corrected_path, known, tables, base, autoUpdate,
                   ap, checkExe, srcDir, scratch, inputs, downloads>>

\* ApplyFile returning normally when the operator declines
ApplyPrompt_DeclineReturns ==
    /\ pc = "A_prompt"
    /\ UNCHANGED <<loc, conn>>
    /\ \E response \in Answers :
        /\ IsYes(response) => ap.depth < MaxDepth
        /\ inputs' = Append(inputs, [prompt |-> "fallback", answer |-> response])
        /\ IF IsYes(response)
           THEN /\ ap' = ApplyFilePool(db, ap.path, ap.depth + 1)
                /\ pc' = "A_invoke"
                /\ apResult' = apResult
           ELSE /\ ap' = ap
                /\ pc' = Continuation
                /\ apResult' = "ok"
    /\ UNCHANGED book
    /\ UNCHANGED <<op, db, ret, corrected_path, known, tables, base, autoUpdate,
                   checkExe, srcDir, scratch, invocations, downloads>>

\* "Use default TrinityCore SQL (TDB) files? [y/N]"
ApplyPrompt ==
    /\ pc = "A_prompt"
    /\ UNCHANGED <<loc, conn>>
    /\ \E response \in Answers :
        /\ IsYes(response) => ap.depth < MaxDepth
        /\ inputs' = Append(inputs, [prompt |-> "fallback", answer |-> response])
        /\ IF IsYes(response)
           THEN /\ ap' = ApplyFilePool(db, ap.path, ap.depth + 1)
                /\ pc' = "A_invoke"
                /\ apResult' = apResult
           ELSE /\ ap' = ap
                /\ pc' = Continuation
                /\ apResult' = "throw"
    /\ UNCHANGED book
    /\ UNCHANGED <<op, db, ret, corrected_path, known, tables, base, autoUpdate,
                   checkExe, srcDir, scratch, invocations, downloads>>

(***************************************************************************)
(* Create                                                                  *)
(***************************************************************************)
\* std::ofstream file(temp): the scratch file is written, or cannot be opened
CreateOpen ==
    /\ pc = "C_open"
    /\ UNCHANGED <<loc, conn>>
    /\ \E opened \in BOOLEAN :
        IF opened
        THEN /\ scratch' = "written"
             /\ pc' = "C_apply"
             /\ ret' = ret
        ELSE /\ pc' = "idle"
             /\ ret' = "false"
             /\ scratch' = scratch
    /\ UNCHANGED book
    /\ UNCHANGED <<op, db, corrected_path, known, tables, base, autoUpdate, ap, apResult,
                   checkExe, srcDir, hist>>

\* ApplyFile(pool, host, user, password, port_or_socket, "", ssl, temp)
CreateApply ==
    /\ pc = "C_apply"
    /\ UNCHANGED <<loc, conn>>
    /\ ap' = [path |-> Temp, database |-> "", depth |-> 1]
    /\ pc' = "A_invoke"
    /\ UNCHANGED book
    /\ UNCHANGED <<op, db, ret, corrected_path, known, tables, base, autoUpdate,
                   apResult, checkExe, srcDir, scratch, hist>>

\* CreateApplied with the cleanup missing from the catch block
CreateApplied_KeepOnFailure ==
    /\ pc = "C_applied"
    /\ UNCHANGED <<loc, conn>>
    /\ scratch' = IF apResult = "throw" THEN scratch ELSE "removed"
    /\ ret' = IF apResult = "throw" THEN "false" ELSE "true"
    /\ pc' = "idle"
    /\ UNCHANGED book
    /\ UNCHANGED <<op, db, corrected_path, known, tables, base, autoUpdate, ap,
                   apResult, checkExe, srcDir, hist>>

\* the catch block, or the normal way out: both remove the scratch file
CreateApplied ==
    /\ pc = "C_applied"
    /\ UNCHANGED <<loc, conn>>
    /\ scratch' = "removed"
    /\ ret' = IF apResult = "throw" THEN "false" ELSE "true"
    /\ pc' = "idle"
    /\ UNCHANGED book
    /\ UNCHANGED <<op, db, corrected_path, known, tables, base, autoUpdate, ap,
                   apResult, checkExe, srcDir, hist>>

(***************************************************************************)
(* Populate                                                                *)
(***************************************************************************)
PopulateCheck ==
    /\ pc = "P_check"
    /\ UNCHANGED <<loc, conn>>
    /\ CheckExecutable("P_tables")
    /\ UNCHANGED book
    /\ UNCHANGED <<op, db, known, tables, base, autoUpdate, ap, apResult,
                   srcDir, scratch, hist>>

\* PopulateTables without the World/Hotfixes exception (populate only if empty)
PopulateTables_AllTypes ==
    /\ pc = "P_tables"
    /\ UNCHANGED <<loc, conn>>
    /\ IF tables > 0
       THEN /\ pc' = "idle"
            /\ ret' = "true"
       ELSE /\ pc' = "P_base"
            /\ ret' = ret
    /\ UNCHANGED book
    /\ UNCHANGED <<op, db, corrected_path, known, locals, hist>>

\* only the types other than World and Hotfixes look at SHOW TABLES
PopulateTables ==
    /\ pc = "P_tables"
    /\ UNCHANGED <<loc, conn>>
    /\ IF GetTableName(db) # "World" /\ GetTableName(db) # "Hotfixes" /\ tables > 0
       THEN /\ pc' = "idle"
            /\ ret' = "true"
       ELSE /\ pc' = "P_base"
            /\ ret' = ret
    /\ UNCHANGED book
    /\ UNCHANGED <<op, db, corrected_path, known, locals, hist>>

\* p = GetBaseFile(); an empty p is "No base file provided, skipped!"
PopulateBase ==
    /\ pc = "P_base"
    /\ UNCHANGED <<loc, conn>>
    /\ \E p \in GetBaseFile(db) :
        /\ base' = p
        /\ IF p = ""
           THEN /\ pc' = "idle"
                /\ ret' = "true"
           ELSE /\ ret' = ret
                /\ pc' = IF DownloadUrl(GetTableName(db)) # "" THEN "P_consent"
                                                                ELSE "P_apply"
    /\ UNCHANGED book
    /\ UNCHANGED <<op, db, corrected_path, known, tables, autoUpdate, ap, apResult,
                   checkExe, srcDir, scratch, hist>>

\* PopulateConsent that downloads whatever the operator answered
PopulateConsent_AnyAnswer ==
    /\ pc = "P_consent"
    /\ UNCHANGED <<loc, conn>>
    /\ \E au \in BOOLEAN :
        /\ autoUpdate' = IF au THEN "on" ELSE "off"
        /\ IF au
           THEN /\ inputs' = inputs
                /\ pc' = "P_download"
           ELSE \E userInput \in Answers :
                /\ inputs' = Append(inputs, [prompt |-> "download", answer |-> userInput])
                /\ pc' = "P_download"
    /\ UNCHANGED book
    /\ UNCHANGED <<op, db, ret, corrected_path, known, tables, base, ap, apResult,
                   checkExe, srcDir, scratch, invocations, downloads>>

\* AllowAutoDBUpdate is read; without it the operator is asked for consent
PopulateConsent ==
    /\ pc = "P_consent"
    /\ UNCHANGED <<loc, conn>>
    /\ \E au \in BOOLEAN :
        /\ autoUpdate' = IF au THEN "on" ELSE "off"
        /\ IF au
           THEN /\ inputs' = inputs
                /\ pc' = "P_download"
           ELSE \E userInput \in Answers :
                /\ inputs' = Append(inputs, [prompt |-> "download", answer |-> userInput])
                /\ pc' = IF IsYes(userInput) THEN "P_download" ELSE "P_local"
    /\ UNCHANGED book
    /\ UNCHANGED <<op, db, ret, corrected_path, known, tables, base, ap, apResult,
                   checkExe, srcDir, scratch, invocations, downloads>>

\* PopulateDownload that goes on to apply the file after a failed download
PopulateDownload_IgnoreFailure ==
    /\ pc = "P_download"
    /\ UNCHANGED <<loc, conn>>
    /\ \E outcome \in {"ok", "failed_transfer", "failed_open"} :
        /\ downloads' = Append(downloads,
               [url |-> DownloadUrl(GetTableName(db)), dest |-> base,
                ok |-> (outcome = "ok"), inputsBefore |-> Len(inputs)])
        /\ known' = IF outcome = "failed_open" THEN known ELSE known \cup {base}
        /\ pc' = "P_apply"
        /\ ret' = ret
    /\ UNCHANGED book
    /\ UNCHANGED <<op, db, corrected_path, locals, invocations, inputs>>

\* DownloadFile(downloadUrl, base): it succeeds, or it fails after having
\* opened (truncated) the destination, or it fails before touching it
PopulateDownload ==
    /\ pc = "P_download"
    /\ UNCHANGED <<loc, conn>>
    /\ \E outcome \in {"ok", "failed_transfer", "failed_open"} :
        /\ downloads' = Append(downloads,
               [url |-> DownloadUrl(GetTableName(db)), dest |-> base,
                ok |-> (outcome = "ok"), inputsBefore |-> Len(inputs)])
        /\ known' = IF outcome = "failed_open" THEN known ELSE known \cup {base}
        /\ IF outcome = "ok"
           THEN /\ pc' = "P_apply"
                /\ ret' = ret
           ELSE /\ pc' = "idle"
                /\ ret' = "false"
    /\ UNCHANGED book
    /\ UNCHANGED <<op, db, corrected_path, locals, invocations, inputs>>

\* "Do you want to use an existing local SQL file instead? [y/N]"
PopulateLocal ==
    /\ pc = "P_local"
    /\ UNCHANGED <<loc, conn>>
    /\ \E userInput \in Answers :
        /\ inputs' = Append(inputs, [prompt |-> "local", answer |-> userInput])
        /\ pc' = IF IsYes(userInput) THEN "P_localpath" ELSE "P_apply"
    /\ UNCHANGED book
    /\ UNCHANGED <<op, db, ret, corrected_path, known, locals, invocations, downloads>>

\* "Enter full path to local SQL file": base = Path(localFile), empty or not
PopulateLocalPath ==
    /\ pc = "P_localpath"
    /\ UNCHANGED <<loc, conn>>
    /\ \E localFile \in LocalFiles :
        /\ inputs' = Append(inputs, [prompt |-> "path", answer |-> localFile])
        /\ base' = localFile
    /\ pc' = "P_apply"
    /\ UNCHANGED book
    /\ UNCHANGED <<op, db, ret, corrected_path, known, tables, autoUpdate, ap,
                   apResult, checkExe, srcDir, scratch, invocations, downloads>>

\* ApplyFile(pool, base)
PopulateApply ==
    /\ pc = "P_apply"
    /\ UNCHANGED <<loc, conn>>
    /\ ap' = ApplyFilePool(db, base, 1)
    /\ pc' = "A_invoke"
    /\ UNCHANGED book
    /\ UNCHANGED <<op, db, ret, corrected_path, known, tables, base, autoUpdate,
                   apResult, checkExe, srcDir, scratch, hist>>

\* the catch block is empty: Populate returns true however ApplyFile ended
PopulateApplied ==
    /\ pc = "P_applied"
    /\ UNCHANGED <<loc, conn>>
    /\ ret' = "true"
    /\ pc' = "idle"
    /\ UNCHANGED book
    /\ UNCHANGED <<op, db, corrected_path, known, locals, hist>>

(***************************************************************************)
(* Update                                                                  *)
(***************************************************************************)
UpdateCheck ==
    /\ pc = "U_check"
    /\ UNCHANGED <<loc, conn>>
    /\ CheckExecutable("U_srcdir")
    /\ UNCHANGED book
    /\ UNCHANGED <<op, db, known, tables, base, autoUpdate, ap, apResult,
                   srcDir, scratch, hist>>

\* UpdateSourceDir that only logs the missing directory and goes on
UpdateSourceDir_NoReturn ==
    /\ pc = "U_srcdir"
    /\ UNCHANGED <<loc, conn>>
    /\ \E isDir \in BOOLEAN :
        /\ srcDir' = IF isDir THEN "ok" ELSE "missing"
        /\ pc' = "U_fetch"
        /\ ret' = ret
    /\ UNCHANGED book
    /\ UNCHANGED <<op, db, corrected_path, known, tables, base, autoUpdate, ap,
                   apResult, checkExe, scratch, hist>>

\* is_directory(sourceDirectory)
UpdateSourceDir ==
    /\ pc = "U_srcdir"
    /\ UNCHANGED <<loc, conn>>
    /\ \E isDir \in BOOLEAN :
        IF isDir
        THEN /\ srcDir' = "ok"
             /\ pc' = "U_fetch"
             /\ ret' = ret
        ELSE /\ srcDir' = "missing"
             /\ pc' = "idle"
             /\ ret' = "false"
    /\ UNCHANGED book
    /\ UNCHANGED <<op, db, corrected_path, known, tables, base, autoUpdate, ap,
                   apResult, checkExe, scratch, hist>>

\* updateFetcher.Update(...) is entered with the configuration values.
\* Steps 1 to 3 of the fetcher: enumerate and sort the files, load the
\* AppliedRecords of this database.  (Updates.AllowRehash only matters
\* together with the content of an archived file: see FetcherNext.)
UpdateFetch ==
    /\ pc = "U_fetch"
    /\ UNCHANGED <<loc, conn>>
    /\ \E redundancy \in BOOLEAN, archivedRedundancy \in BOOLEAN,
          maxCount \in 0..MaxDeadRef, disk \in DiskStates,
          loaded \in (IF appliedDb = db THEN {applied} ELSE AppliedStates) :
        /\ fx.previous.same =>
              /\ EnumerateFiles(disk) = fx.previous.files
              /\ redundancy = fx.previous.allowRedundancy
              /\ archivedRedundancy = fx.previous.allowArchivedRedundancy
              /\ maxCount = fx.previous.deadRefMaxCount
        /\ fx' = [fx EXCEPT   !.ran = TRUE, !.files = EnumerateFiles(disk), !.i = 1,
                               !.allowRedundancy = redundancy,
                               !.allowArchivedRedundancy = archivedRedundancy,
                               !.deadRefMaxCount = maxCount]
        /\ applied' = loaded
        /\ known' = known \cup {n \in MigNames : disk[n] # NoFile}
    /\ appliedDb' = db
    /\ pc' = "F_next"
    /\ UNCHANGED <<op, db, ret, corrected_path, locals, hist>>

\* the record a successful application of file f leaves
RecordOf(f) ==
    [hash |-> f.hash, state |-> IF f.category = "ARCHIVED" THEN "ARCHIVED" ELSE "ACTIVE"]

\* a classification that passes over the files that have no record
Classify_SkipNew(f, rec, run, rehash) ==
    IF rec = NoRecord THEN "skip"
    ELSE IF rec.hash = f.hash THEN "skip"
    ELSE IF f.category = "ORDINARY"
         THEN (IF run.allowRedundancy THEN "apply" ELSE "skip")
    ELSE IF rehash THEN "rehash"
    ELSE IF run.allowArchivedRedundancy THEN "apply" ELSE "skip"

\* steps 4 and 5: what to do with file f given its record.  `rehash` is
\* allowRehash together with "the content is equivalent up to a
\* rehash-eligible transformation", which only the file's bytes decide.
Classify(f, rec, run, rehash) ==
    IF rec = NoRecord THEN "apply"
    ELSE IF rec.hash = f.hash THEN "skip"
    ELSE IF f.category = "ORDINARY"
         THEN (IF run.allowRedundancy THEN "apply" ELSE "skip")
    ELSE IF rehash THEN "rehash"
    ELSE IF run.allowArchivedRedundancy THEN "apply" ELSE "skip"

\* the next file in order is classified; applying it calls back into
\* ApplyFile(pool, file) of the orchestrator
FetcherNext ==
    /\ pc = "F_next"
    /\ UNCHANGED <<loc, conn>>
    /\ IF fx.i > Len(fx.files)
       THEN /\ pc' = "F_sweep"
            /\ UNCHANGED <<ap, apResult, applied, fx>>
       ELSE LET f == fx.files[fx.i] IN
            \E rehash \in (IF fx.previous.same /\ f.name \in fx.previous.noRehash
                           THEN {FALSE} ELSE BOOLEAN) :
            LET todo == Classify(f, applied[f.name], fx, rehash)
                rec  == applied[f.name]
                read == /\ rec # NoRecord /\ rec.hash # f.hash
                        /\ f.category = "ARCHIVED" /\ ~rehash
                seen == IF read THEN fx.noRehash \cup {f.name} ELSE fx.noRehash
            IN
              /\ pc' = IF todo = "apply" THEN "A_invoke" ELSE "F_next"
              /\ ap' = IF todo = "apply" THEN ApplyFilePool(db, f.name, 1) ELSE ap
              /\ apResult' = IF todo = "apply" THEN "none" ELSE apResult
              /\ applied' = IF todo = "rehash"
                            THEN [applied EXCEPT ![f.name].hash = f.hash]
                            ELSE applied
              /\ fx' = IF todo = "apply" THEN [fx EXCEPT !.noRehash = seen]
                       ELSE [fx EXCEPT !.i = fx.i + 1, !.noRehash = seen,
                                       !.writes = IF todo = "rehash" THEN @ + 1 ELSE @]
    /\ UNCHANGED <<op, db, ret, corrected_path, known, tables, base, autoUpdate,
                   checkExe, srcDir, scratch, hist, appliedDb>>

\* a fetcher that goes on with the next file after a failed application
FetcherApplied_ContinueOnFailure ==
    /\ pc = "F_applied"
    /\ UNCHANGED <<loc, conn>>
    /\ LET f == fx.files[fx.i] IN
       IF apResult = "ok"
       THEN /\ applied' = [applied EXCEPT ![f.name] = RecordOf(f)]
            /\ fx' = [fx EXCEPT !.i = fx.i + 1,
                          !.recent = IF f.category = "ORDINARY" THEN @ + 1 ELSE @,
                          !.archived = IF f.category = "ARCHIVED" THEN @ + 1 ELSE @,
                          !.log = Append(@, f.name),
                          !.writes = @ + 1]
            /\ pc' = "F_next"
       ELSE /\ fx' = [fx EXCEPT !.raised = "ApplyFailed", !.i = fx.i + 1]
            /\ applied' = applied
            /\ pc' = "F_next"
    /\ UNCHANGED <<op, db, ret, corrected_path, known, locals, hist, appliedDb>>

\* a fetcher that applies a file and writes no record for it
FetcherApplied_NoRecord ==
    /\ pc = "F_applied"
    /\ UNCHANGED <<loc, conn>>
    /\ LET f == fx.files[fx.i] IN
       IF apResult = "ok"
       THEN /\ applied' = applied
            /\ fx' = [fx EXCEPT !.i = fx.i + 1,
                          !.recent = IF f.category = "ORDINARY" THEN @ + 1 ELSE @,
                          !.archived = IF f.category = "ARCHIVED" THEN @ + 1 ELSE @,
                          !.log = Append(@, f.name),
                          !.writes = @ + 1]
            /\ pc' = "F_next"
       ELSE /\ fx' = [fx EXCEPT !.raised = "ApplyFailed"]
            /\ applied' = applied
            /\ pc' = "U_result"
    /\ UNCHANGED <<op, db, ret, corrected_path, known, locals, hist, appliedDb>>

\* the callback returned or threw: record the file, or abort the run (step 7)
FetcherApplied ==
    /\ pc = "F_applied"
    /\ UNCHANGED <<loc, conn>>
    /\ LET f == fx.files[fx.i] IN
       IF apResult = "ok"
       THEN /\ applied' = [applied EXCEPT ![f.name] = RecordOf(f)]
            /\ fx' = [fx EXCEPT !.i = fx.i + 1,
                          !.recent = IF f.category = "ORDINARY" THEN @ + 1 ELSE @,
                          !.archived = IF f.category = "ARCHIVED" THEN @ + 1 ELSE @,
                          !.log = Append(@, f.name),
                          !.writes = @ + 1]
            /\ pc' = "F_next"
       ELSE /\ fx' = [fx EXCEPT !.raised = "ApplyFailed"]
            /\ applied' = applied
            /\ pc' = "U_result"
    /\ UNCHANGED <<op, db, ret, corrected_path, known, locals, hist, appliedDb>>

\* records whose name has no file in the enumerated tree
DeadReferences(records, files) ==
    {n \in MigNames : records[n] # NoRecord /\ \A k \in 1..Len(files) : files[k].name # n}

\* a sweep that prunes whatever the threshold is
FetcherSweep_PruneAlways ==
    /\ pc = "F_sweep"
    /\ UNCHANGED <<loc, conn>>
    /\ LET dead == DeadReferences(applied, fx.files) IN
       /\ applied' = [n \in MigNames |-> IF n \in dead THEN NoRecord ELSE applied[n]]
       /\ fx' = [fx EXCEPT !.writes = @ + Cardinality(dead)]
    /\ pc' = "U_result"
    /\ UNCHANGED <<op, db, ret, corrected_path, known, locals, hist, appliedDb>>

\* step 6: the dead-reference sweep
FetcherSweep ==
    /\ pc = "F_sweep"
    /\ UNCHANGED <<loc, conn>>
    /\ LET dead == DeadReferences(applied, fx.files) IN
       IF Cardinality(dead) <= fx.deadRefMaxCount
       THEN /\ applied' = [n \in MigNames |-> IF n \in dead THEN NoRecord ELSE applied[n]]
            /\ fx' = [fx EXCEPT !.writes = @ + Cardinality(dead)]
       ELSE /\ applied' = applied
            /\ fx' = [fx EXCEPT !.raised = "DeadReferenceOverflow"]
    /\ pc' = "U_result"
    /\ UNCHANGED <<op, db, ret, corrected_path, known, locals, hist, appliedDb>>

\* step 8: the UpdateResult of a run that did not raise
Result(run) ==
    [recent |-> run.recent, archived |-> run.archived,
     updated |-> run.recent + run.archived > 0]

\* UpdateReturn with a catch block that swallows the exception
UpdateReturn_Swallow ==
    /\ pc = "U_result"
    /\ UNCHANGED <<loc, conn>>
    /\ ret' = "true"
    /\ pc' = "idle"
    /\ UNCHANGED <<op, db, corrected_path, known, locals, hist, book>>

\* the fetcher returned a result, or the catch block of Update was entered
UpdateReturn ==
    /\ pc = "U_result"
    /\ UNCHANGED <<loc, conn>>
    /\ ret' = IF fx.raised # "none" THEN "false" ELSE "true"
    /\ pc' = "idle"
    /\ UNCHANGED <<op, db, corrected_path, known, locals, hist, book>>

(***************************************************************************)
(* The executable locator on its own: CheckExecutable called between the   *)
(* updater's calls, with the client files on disk made explicit so that    *)
(* files can appear and disappear between two checks.                      *)
(***************************************************************************)
\* the client files that may exist, by absolute path: the configured one and
\* the two the PATH search can return
ExeFiles == {"/cwd/mysql", "/cwd/bin/mysql", "/usr/bin/mysql"}

\* is_regular_file(p) for a client path, on the given disk
IsRegularExe(p, disk) == Absolute(p) \in disk

NoValidate ==
    [called |-> FALSE, before |-> "", reg |-> FALSE, exe |-> "",
     found |-> FALSE, ok |-> FALSE]

\* disk: the client files that exist; last: what the most recent
\* CheckExecutable read and returned (before = the path it resolved on
\* entry); firstFound / lastFound: the absolute path of the first / most
\* recent PATH search hit that CheckExecutable accepted reading the disk
NoLoc == [disk |-> {}, last |-> NoValidate, firstFound |-> "", lastFound |-> ""]

\* files appear and disappear
LocatorDisk ==
    /\ pc = "idle"
    /\ \E d \in SUBSET ExeFiles :
        /\ d # loc.disk
        /\ loc' = [loc EXCEPT !.disk = d]
    /\ UNCHANGED <<pc, op, db, ret, corrected_path, known, locals, hist, book, conn>>

\* one CheckExecutable call
LocatorValidate ==
    /\ pc = "idle"
    /\ \E exe \in SearchResults :
        LET resolved == GetCorrectedMySQLExecutable
            reg      == IsRegularExe(resolved, loc.disk)
            found    == IsRegularExe(exe, loc.disk)
            v        == Validate(corrected_path, reg, exe, found)
            hit      == ~reg /\ exe # "" /\ found
        IN  /\ corrected_path' = v.path
            /\ loc' = [loc EXCEPT
                         !.last = [called |-> TRUE, before |-> resolved,
                                   reg |-> reg, exe |-> exe, found |-> found,
                                   ok |-> v.ok],
                         !.firstFound = IF hit /\ @ = "" THEN Absolute(exe) ELSE @,
                         !.lastFound  = IF hit THEN Absolute(exe) ELSE @]
    /\ UNCHANGED <<pc, op, db, ret, known, locals, hist, book, conn>>

(***************************************************************************)
(* The process                                                             *)
(***************************************************************************)
\* everything but the build and the connection info
InitState ==
    /\ pc = "idle"
    /\ loc = NoLoc
    /\ op = "none"
    /\ db = "Login"
    /\ ret = "none"
    /\ corrected_path = ""
    /\ known = {}
    /\ tables = 0
    /\ base = "unset"
    /\ autoUpdate = "unread"
    /\ ap = NoFrame
    /\ apResult = "none"
    /\ checkExe = "none"
    /\ srcDir = "none"
    /\ scratch = "untouched"
    /\ invocations = <<>>
    /\ inputs = <<>>
    /\ downloads = <<>>
    /\ applied = NoRecords
    /\ appliedDb = "none"
    /\ fx = NoRun

Init ==
    /\ InitState
    /\ conn = DefaultConnection

\* any build, any connection info
InitArgs ==
    /\ InitState
    /\ conn \in Connections

\* Create and Populate calls: provisioning
NextProvision ==
    \/ \E T \in DBTypes : CallCreate(T)
    \/ \E T \in DBTypes : CallPopulate(T)
    \/ CreateOpen
    \/ CreateApply
    \/ CreateApplied
    \/ PopulateCheck
    \/ PopulateTables
    \/ PopulateBase
    \/ PopulateConsent
    \/ PopulateDownload
    \/ PopulateLocal
    \/ PopulateLocalPath
    \/ PopulateApply
    \/ PopulateApplied
    \/ ApplyInvoke
    \/ ApplyFailed
    \/ ApplyPrompt

\* Update calls
NextUpdate ==
    \/ \E T \in DBTypes : CallUpdate(T)
    \/ UpdateCheck
    \/ UpdateSourceDir
    \/ UpdateFetch
    \/ FetcherNext
    \/ FetcherApplied
    \/ FetcherSweep
    \/ UpdateReturn
    \/ ApplyInvoke
    \/ ApplyFailed
    \/ ApplyPrompt

\* The operations meet only in corrected_path, which either kind of call
\* sets in the same way, so each kind is explored on its own.
Spec == Init /\ [][NextProvision]_vars
SpecUpdate == Init /\ [][NextUpdate]_vars

\* the executable locator alone
NextLocator ==
    \/ LocatorDisk
    \/ LocatorValidate

SpecLocator == Init /\ [][NextLocator]_vars

\* Create calls only
NextCreate ==
    \/ \E T \in DBTypes : CallCreate(T)
    \/ CreateOpen
    \/ CreateApply
    \/ CreateApplied
    \/ ApplyInvoke
    \/ ApplyFailed
    \/ ApplyPrompt

\* Create, which passes the connection info to ApplyFile itself, under every
\* build and connection info
SpecArgs == InitArgs /\ [][NextCreate]_vars

(***************************************************************************)
(* Properties                                                              *)
(***************************************************************************)
\* the operation called last has returned
Returned == pc = "idle" /\ ret # "none"
\* the fallback questions ("Use default TrinityCore SQL (TDB) files?") asked
FallbackPrompts == {i \in 1..Len(inputs) : inputs[i].prompt = "fallback"}
Yes == {"y", "Y"}
DownloadCapable == {"World", "Hotfix"}

\* C1: when applying the resolved base file fails (the SQL client exits
\* non-zero) and either no file exists at that path or the operator declines
\* the fallback prompt, Populate returns false.
C1_PopulateFailsWhenApplyFails ==
    (/\ op = "Populate"
     /\ Returned
     /\ invocations # <<>>
     /\ LET last == invocations[Len(invocations)] IN
        /\ last.status # EXIT_SUCCESS
        /\ \/ last.exists = "no"
           \/ /\ last.exists = "yes"
              /\ inputs # <<>>
              /\ inputs[Len(inputs)].prompt = "fallback"
              /\ inputs[Len(inputs)].answer \notin Yes)
    => ret = "false"

\* C2: within one Populate call the fallback question is asked at most once
\* and the SQL client is started at most twice.
C2_SingleFallback ==
    op = "Populate" => Cardinality(FallbackPrompts) <= 1 /\ Len(invocations) <= 2

\* C3: for a download-capable type with auto-update disabled, after the
\* operator declined the download and declined to supply a local file, the
\* SQL client is not started in that Populate call.
C3_DeclineBothSkipsApply ==
    (/\ op = "Populate"
     /\ db \in DownloadCapable
     /\ autoUpdate = "off"
     /\ Len(inputs) >= 2
     /\ inputs[1].prompt = "download" /\ inputs[1].answer \notin Yes
     /\ inputs[2].prompt = "local" /\ inputs[2].answer \notin Yes)
    => invocations = <<>>

\* C4: when the download of the base snapshot fails, Populate has returned
\* false and no SQL client was started in that call.
C4_DownloadFailureIsFatal ==
    op = "Populate" =>
        \A i \in 1..Len(downloads) :
            ~downloads[i].ok => Returned /\ ret = "false" /\ invocations = <<>>

C4_Witness ==
    /\ op = "Populate"
    /\ Len(downloads) = 1
    /\ ~downloads[1].ok
    /\ Returned
    /\ ret = "false"

\* C5: for a download-capable type, with AllowAutoDBUpdate enabled the
\* download is started with no operator input read before it; with it
\* disabled the first input is the answer to the download question, the
\* download is started after a y or Y and only then, and any other answer
\* means no download in that call.
C5_DownloadConsent ==
    (op = "Populate" /\ db \in DownloadCapable) =>
        /\ autoUpdate = "unread" => downloads = <<>>
        /\ autoUpdate = "on" =>
            /\ \A i \in 1..Len(inputs) : inputs[i].prompt = "fallback"
            /\ \/ pc = "P_download" /\ downloads = <<>> /\ inputs = <<>>
               \/ Len(downloads) = 1 /\ downloads[1].inputsBefore = 0
        /\ autoUpdate = "off" =>
            /\ inputs # <<>>
            /\ inputs[1].prompt = "download"
            /\ IF inputs[1].answer \in Yes
               THEN \/ pc = "P_download" /\ downloads = <<>> /\ Len(inputs) = 1
                    \/ Len(downloads) = 1 /\ downloads[1].inputsBefore = 1
               ELSE downloads = <<>>

C5_Witness ==
    /\ op = "Populate"
    /\ db \in DownloadCapable
    /\ autoUpdate = "off"
    /\ Len(downloads) = 1
    /\ inputs[1].answer = "Y"

\* C6 as stated: Populate of Auth or Character on a schema with at least one
\* table returns true without starting the SQL client, downloading or
\* prompting; Populate of World or Hotfixes resolves the base snapshot
\* whatever the number of tables.
C6_TablesShortCircuit ==
    (op = "Populate" /\ Returned) =>
        /\ (db \notin DownloadCapable /\ tables > 0) =>
               /\ ret = "true"
               /\ invocations = <<>> /\ downloads = <<>> /\ inputs = <<>>
        /\ db \in DownloadCapable => base # "unset"

\* C6, amended: the same, for the calls in which CheckExecutable succeeded.
C6_TablesShortCircuitAfterCheck ==
    (op = "Populate" /\ Returned /\ checkExe = "ok") =>
        /\ (db \notin DownloadCapable /\ tables > 0) =>
               /\ ret = "true"
               /\ base = "unset"
               /\ invocations = <<>> /\ downloads = <<>> /\ inputs = <<>>
        /\ db \in DownloadCapable => base # "unset"

C6_Witness ==
    /\ op = "Populate"
    /\ Returned
    /\ checkExe = "ok"
    /\ db = "Character"
    /\ tables > 0
    /\ ret = "true"

\* C7: whenever Create has returned after writing its scratch file, the
\* scratch file no longer exists.
C7_ScratchRemoved ==
    (op = "Create" /\ Returned) => scratch # "written"

C7_Witness ==
    /\ op = "Create"
    /\ Returned
    /\ ret = "false"
    /\ scratch = "removed"

\* C8: a Create call in which a SQL client started for the CREATE DATABASE
\* statement exited non-zero returns false, and Create returns true only
\* after the statement was applied with exit status success.
C8_CreateFailsOnNonZeroExit ==
    (op = "Create" /\ Returned) =>
        /\ (\E i \in 1..Len(invocations) : invocations[i].status # EXIT_SUCCESS)
               => ret = "false"
        /\ ret = "true" =>
               /\ invocations # <<>>
               /\ invocations[Len(invocations)].status = EXIT_SUCCESS

\* C9: when the executable check and the source-directory check passed,
\* Update has run the fetcher, and it returns false exactly when the fetcher
\* raised an update error (so true for every result, whatever its counts).
C9_UpdateFalseIffFetcherRaised ==
    (op = "Update" /\ Returned /\ checkExe = "ok" /\ srcDir = "ok") =>
        /\ fx.ran
        /\ ret = "false" <=> fx.raised # "none"

C9_Witness ==
    /\ op = "Update"
    /\ Returned
    /\ checkExe = "ok"
    /\ srcDir = "ok"
    /\ fx.raised = "ApplyFailed"
    /\ ret = "false"

\* C10: when the executable cannot be validated or the source tree is not a
\* directory, Update has returned false, the fetcher was not run, no SQL
\* client was started and no AppliedRecord was written; and the
\* AppliedRecords change only in steps of a running fetcher.
C10_UpdatePreconditionsFatal ==
    /\ [](op = "Update" /\ (checkExe = "fail" \/ srcDir = "missing") =>
            /\ Returned
            /\ ret = "false"
            /\ ~fx.ran
            /\ invocations = <<>>
            /\ fx.writes = 0)
    /\ [][applied' # applied => fx'.ran]_vars

C10_Witness ==
    /\ op = "Update"
    /\ checkExe = "ok"
    /\ srcDir = "missing"
    /\ Returned
    /\ ret = "false"

\* what CheckExecutable returned, against what it read from the disk, and
\* what a failed CheckExecutable leaves GetCorrectedMySQLExecutable returning
ValidateOutcome ==
    loc.last.called =>
        /\ loc.last.ok <=>
              (loc.last.reg \/ (loc.last.exe # "" /\ loc.last.found))
        /\ ~loc.last.ok => GetCorrectedMySQLExecutable = loc.last.before

\* C11 as stated: CheckExecutable returns true exactly when the resolved path
\* is a regular file or the PATH search finds a regular file; after the PATH
\* search was accepted, GetCorrectedMySQLExecutable returns the absolute path
\* that was found ever after; a failed CheckExecutable leaves the path as it
\* was.  (Violated: a later CheckExecutable corrects the path again.)
C11_FoundPathForEver ==
    /\ ValidateOutcome
    /\ loc.firstFound # "" => GetCorrectedMySQLExecutable = loc.firstFound

\* C11, amended: CheckExecutable returns true exactly when the resolved path
\* is a regular file or the PATH search finds a regular file; after the PATH
\* search was accepted, GetCorrectedMySQLExecutable returns the absolute path
\* found by the most recent such CheckExecutable; a failed CheckExecutable
\* leaves the path as it was.
C11_FoundPathUntilCorrectedAgain ==
    /\ ValidateOutcome
    /\ loc.lastFound # "" => GetCorrectedMySQLExecutable = loc.lastFound

\* a CheckExecutable that accepted the PATH search, then one that failed
C11_Witness ==
    /\ loc.last.called
    /\ ~loc.last.ok
    /\ loc.lastFound # ""
    /\ loc.last.exe # ""

\* C12 as stated: once corrected_path is non-empty no step changes or clears
\* it.  (Violated: the cached file disappears and the PATH search finds
\* another one.)
C12_InitializeOnce ==
    [][corrected_path # "" => corrected_path' = corrected_path]_vars

\* C12, amended: once corrected_path is non-empty it is never cleared, and it
\* changes only in a CheckExecutable that finds the cached path no longer a
\* regular file and a regular file in the PATH search, to the absolute path of
\* that file.
C12_NeverClearedOnlyCorrected ==
    [][corrected_path # "" =>
        /\ corrected_path' # ""
        /\ corrected_path' # corrected_path =>
              /\ ~IsRegularExe(corrected_path, loc.disk)
              /\ loc'.last.called /\ loc'.last.before = corrected_path
              /\ ~loc'.last.reg /\ loc'.last.found
              /\ corrected_path' = Absolute(loc'.last.exe)]_vars

\* a cached path was replaced by another one
C12_Witness ==
    /\ loc.last.called
    /\ corrected_path # ""
    /\ loc.last.before = loc.firstFound
    /\ corrected_path # loc.firstFound


\* invocations that follow a failed invocation of the same file
Retries ==
    {i \in 2..Len(invocations) :
        /\ invocations[i-1].status # EXIT_SUCCESS
        /\ invocations[i].path = invocations[i-1].path}
\* fallback prompts the operator answered with y or Y
YesAnswers == {i \in FallbackPrompts : inputs[i].answer \in Yes}

\* C13: a failed application is never retried automatically: the client is
\* started again on the file of a failed invocation only directly after the
\* operator answered y or Y to the fallback prompt, once per such answer.
C13_NoAutomaticRetry ==
    /\ [](Cardinality(Retries) <= Cardinality(YesAnswers))
    /\ [][(/\ Len(invocations') = Len(invocations) + 1
           /\ Len(invocations) > 0
           /\ invocations[Len(invocations)].status # EXIT_SUCCESS
           /\ invocations'[Len(invocations')].path
                 = invocations[Len(invocations)].path)
          => /\ inputs' = inputs
             /\ inputs # <<>>
             /\ inputs[Len(inputs)].prompt = "fallback"
             /\ inputs[Len(inputs)].answer \in Yes
             /\ Cardinality(Retries') = Cardinality(YesAnswers)]_vars

\* the client was started a second time on a file it had failed on
C13_Witness ==
    /\ Len(invocations) = 2
    /\ Retries = {2}
    /\ YesAnswers # {}


\* the operator answered "Enter full path to local SQL file" with a path
LocalFileChosen ==
    \E i \in 1..Len(inputs) : inputs[i].prompt = "path" /\ inputs[i].answer # ""

\* C14: when applying an operator-supplied local file fails in Populate and
\* the client is started again after the fallback prompt, it is started on
\* the bundled default base file of the type, not on the file that just
\* failed.
C14_FallbackIsBundledDefault ==
    (/\ op = "Populate"
     /\ LocalFileChosen
     /\ Len(invocations) >= 2
     /\ invocations[1].status # EXIT_SUCCESS)
    => /\ invocations[2].path \in GetBaseFile(db) \ {""}
       /\ invocations[2].path # invocations[1].path

\* C15: in Populate, when the operator chooses a local file and then enters
\* an empty path, the SQL client is not invoked with the empty path.
C15_EmptyPathSkipsApply ==
    (/\ op = "Populate"
     /\ \E i \in 1..Len(inputs) :
           inputs[i].prompt = "path" /\ inputs[i].answer = "")
    => \A j \in 1..Len(invocations) : invocations[j].path # ""


\* the files of the run the fetcher has gone past
FilesDone == {k \in 1..Len(fx.files) : k < fx.i}
\* the invocations of the SQL client that exited with success
Succeeded == SelectSeq(invocations, LAMBDA v : v.status = EXIT_SUCCESS)

\* C16: in one fetcher run every file without an AppliedRecord is applied
\* exactly once (one successful client invocation) and gets its record, the
\* files are applied in sorted order one after the other, and the result
\* counts them (two new ordinary files: recent = 2, archived = 0, updated).
C16_NewFilesAppliedOnceInOrder ==
    fx.ran =>
        /\ \A k \in FilesDone : applied[fx.files[k].name] # NoRecord
        /\ \A a, b \in 1..Len(fx.log) :
              a < b => NameKey(fx.log[a]) < NameKey(fx.log[b])
        /\ pc # "F_applied" =>
              /\ Len(Succeeded) = Len(fx.log)
              /\ \A a \in 1..Len(fx.log) : Succeeded[a].path = fx.log[a]
        /\ \A k \in FilesDone :
              (\E a \in 1..Len(fx.log) : fx.log[a] = fx.files[k].name)
                 => applied[fx.files[k].name] = RecordOf(fx.files[k])
        /\ fx.recent + fx.archived = Len(fx.log)
        /\ fx.recent = Cardinality({k \in FilesDone :
                          /\ fx.files[k].category = "ORDINARY"
                          /\ \E a \in 1..Len(fx.log) : fx.log[a] = fx.files[k].name})
        /\ Result(fx).updated <=> fx.log # <<>>

\* 001_init.sql and 002_init.sql, both ordinary, were applied in this order
\* and are the only records: recent = 2, archived = 0, updated
C16_Witness ==
    /\ Returned /\ op = "Update" /\ ret = "true"
    /\ Len(fx.files) = 2
    /\ \A k \in 1..2 : fx.files[k].category = "ORDINARY"
    /\ fx.log = <<"001_init.sql", "002_init.sql">>
    /\ fx.writes = 2
    /\ Result(fx) = [recent |-> 2, archived |-> 0, updated |-> TRUE]


\* C17: a run that immediately follows a successful run for the same
\* database, with the files and the configuration unchanged, applies no file,
\* leaves every record as the first run left it, does not fail and reports
\* recent = 0, archived = 0, updated = false.
C17_UpdateIdempotent ==
    (fx.previous.same /\ fx.ran) =>
        /\ invocations = <<>>
        /\ fx.log = <<>>
        /\ applied = fx.previous.records
        /\ fx.writes = 0
        /\ fx.raised = "none"
        /\ Result(fx) = [recent |-> 0, archived |-> 0, updated |-> FALSE]

\* the second of two runs over two files has returned; the first run left a
\* record for each file
C17_Witness ==
    /\ Returned /\ op = "Update" /\ ret = "true"
    /\ fx.previous.same /\ fx.ran
    /\ fx.i = 3
    /\ \A n \in MigNames : fx.previous.records[n] # NoRecord


\* C18: in the dead-reference sweep, a number of dead records up to
\* deadRefMaxCount gets all of them pruned (the other records stay) and the
\* run succeeds; a larger number makes the run fail with
\* DeadReferenceOverflow and the table is left exactly as it was.
C18_DeadReferenceSweep ==
    /\ [][pc = "F_sweep" =>
            LET dead == DeadReferences(applied, fx.files) IN
            IF Cardinality(dead) <= fx.deadRefMaxCount
            THEN /\ \A n \in MigNames :
                       applied'[n] = IF n \in dead THEN NoRecord ELSE applied[n]
                 /\ fx'.raised = "none"
            ELSE /\ applied' = applied
                 /\ fx'.raised = "DeadReferenceOverflow"]_vars
    /\ []((Returned /\ op = "Update" /\ fx.ran /\ fx.raised # "ApplyFailed") =>
            IF fx.raised = "DeadReferenceOverflow"
            THEN /\ ret = "false"
                 /\ Cardinality(DeadReferences(applied, fx.files)) > fx.deadRefMaxCount
            ELSE /\ ret = "true"
                 /\ DeadReferences(applied, fx.files) = {})

\* a run failed on more dead records than the threshold; they are all there
C18_Witness ==
    /\ Returned /\ op = "Update" /\ ret = "false"
    /\ fx.raised = "DeadReferenceOverflow"
    /\ fx.deadRefMaxCount > 0
    /\ Cardinality(DeadReferences(applied, fx.files)) > fx.deadRefMaxCount

\* C19: when applying a file fails during Update, no later file of the run
\* is applied, the run fails (Update returns false), and the records of the
\* files applied earlier in the run are still in the table.
C19_ApplyFailureAbortsRun ==
    fx.raised = "ApplyFailed" =>
        /\ pc \in {"U_result", "idle"}
        /\ Returned => ret = "false"
        /\ invocations # <<>>
        /\ invocations[Len(invocations)].status # EXIT_SUCCESS
        /\ invocations[Len(invocations)].path = fx.files[fx.i].name
        /\ \A j \in 1..Len(invocations) :
              NameKey(invocations[j].path) <= NameKey(fx.files[fx.i].name)
        /\ \A k \in FilesDone :
              (\E a \in 1..Len(fx.log) : fx.log[a] = fx.files[k].name)
                 => applied[fx.files[k].name] = RecordOf(fx.files[k])

\* the first file was applied and recorded, the second one failed
C19_Witness ==
    /\ Returned /\ op = "Update" /\ ret = "false"
    /\ fx.raised = "ApplyFailed"
    /\ fx.i = 2
    /\ fx.log = <<fx.files[1].name>>
    /\ applied[fx.files[1].name] = RecordOf(fx.files[1])


\* C20: the policy of the database type of every call is one of four
\* entries; no other type has the same config key or the same display name;
\* its base location is LOCATION_DOWNLOAD exactly when it is World or Hotfix
\* (the types Populate has a download URL for) and LOCATION_REPOSITORY for
\* Login and Character.
C20_PolicyTable ==
    /\ db \in DBTypes
    /\ Cardinality(DBTypes) = 4
    /\ GetConfigEntry(db) \in
          {"Updates.Auth", "Updates.World", "Updates.Character", "Updates.Hotfix"}
    /\ GetTableName(db) \in {"Auth", "World", "Character", "Hotfixes"}
    /\ \A U \in DBTypes \ {db} :
          /\ GetConfigEntry(U) # GetConfigEntry(db)
          /\ GetTableName(U) # GetTableName(db)
    /\ GetBaseLocationType(db) =
          IF db \in {"World", "Hotfix"}
          THEN "LOCATION_DOWNLOAD" ELSE "LOCATION_REPOSITORY"
    /\ GetBaseLocationType(db) = "LOCATION_DOWNLOAD"
          <=> DownloadUrl(GetTableName(db)) # ""
    /\ downloads # <<>> => GetBaseLocationType(db) = "LOCATION_DOWNLOAD"

\* Populate of the hotfix database has downloaded its base file
C20_Witness ==
    /\ op = "Populate" /\ db = "Hotfix"
    /\ downloads # <<>>
    /\ GetBaseLocationType(db) = "LOCATION_DOWNLOAD"


\* x is one of the arguments a
Has(a, x) == \E i \in 1..Len(a) : a[i] = x
\* every argument that chooses a transport
TransportFlags ==
    {"-P0", "--protocol=SOCKET", "--protocol=PIPE"}
        \cup {"-P" \o p : p \in PortOrSockets} \cup {"-S" \o p : p \in PortOrSockets}
TransportOf(a) == {x \in TransportFlags : Has(a, x)}

\* the transport the claim describes: chosen from port_or_socket alone
PortOrSocketTransport ==
    IF IsDigitFirst(conn.port_or_socket)
    THEN {"-P" \o conn.port_or_socket}
    ELSE {"-P0", "--protocol=SOCKET", "-S" \o conn.port_or_socket}

\* the password flag is there iff the password is not empty; there is one
\* -e, followed by the SOURCE command of the path, followed by the database
\* name iff it is not empty, and nothing else
PasswordAndCommand(v) ==
    LET a == ArgsOf(v) IN
    /\ (\E pw \in Passwords : Has(a, "-p" \o pw)) <=> conn.password # ""
    /\ conn.password # "" => Has(a, "-p" \o conn.password)
    /\ Cardinality({i \in 1..Len(a) : a[i] = "-e"}) = 1
    /\ \A i \in 1..Len(a) : a[i] = "-e" =>
          /\ i < Len(a)
          /\ a[i+1] = SourceCommand(v.path)
          /\ IF v.database # ""
             THEN Len(a) = i + 2 /\ a[i+2] = v.database
             ELSE Len(a) = i + 1

\* C21 as stated: in the argument vector of every invocation the transport
\* is chosen from port_or_socket alone (first character a digit: only -P with
\* the value; otherwise -P0, --protocol=SOCKET and -S with the value), the
\* password flag is there iff the password is not empty, and the database
\* name follows the single -e command iff it is not empty.  (Violated on a
\* Windows build, where the host chooses the transport.)
C21_TransportFromPortOrSocket ==
    \A j \in 1..Len(invocations) :
        /\ TransportOf(ArgsOf(invocations[j])) = PortOrSocketTransport
        /\ PasswordAndCommand(invocations[j])

\* C21, amended: on a build that is not for Windows the transport is chosen
\* from port_or_socket alone as stated; on a Windows build host "." gives
\* --protocol=PIPE and no port, any other host gives -P with the value; the
\* password flag and the database name are as stated on every build.
C21_TransportByPlatform ==
    \A j \in 1..Len(invocations) :
        /\ TransportOf(ArgsOf(invocations[j])) =
              IF conn.platform # "win32" THEN PortOrSocketTransport
              ELSE IF conn.host = "." THEN {"--protocol=PIPE"}
              ELSE {"-P" \o conn.port_or_socket}
        /\ PasswordAndCommand(invocations[j])

\* the client was started over a socket, without password, once without a
\* database and once on a database
C21_Witness ==
    /\ conn.platform = "unix"
    /\ conn.port_or_socket = "/tmp/mysql.sock"
    /\ conn.password = ""
    /\ Len(invocations) = 2
    /\ invocations[1].database = ""
    /\ invocations[2].database # ""
    /\ \A j \in 1..2 : Has(ArgsOf(invocations[j]), "--protocol=SOCKET")


\* C22: ApplyFile returns normally only if the most recent invocation of the
\* SQL client exited with success; otherwise (the client failed and the file
\* is missing, or the operator declined, also after a retry) it throws
\* UpdateException to its caller.
C22_ApplyFileReturnsOnlyOnSuccess ==
    (pc \in {"C_applied", "P_applied", "F_applied"} \/ apResult # "none") =>
        /\ apResult \in {"ok", "throw"}
        /\ invocations # <<>>
        /\ apResult = "ok" <=>
              invocations[Len(invocations)].status = EXIT_SUCCESS
        /\ apResult = "throw" =>
              \/ invocations[Len(invocations)].exists = "no"
              \/ /\ invocations[Len(invocations)].exists = "yes"
                 /\ inputs # <<>>
                 /\ inputs[Len(inputs)].prompt = "fallback"
                 /\ inputs[Len(inputs)].answer \notin Yes

\* the retry the operator asked for failed as well, and ApplyFile threw
C22_Witness ==
    /\ pc = "P_applied"
    /\ apResult = "throw"
    /\ Len(invocations) = 2
    /\ YesAnswers # {}
    /\ \A j \in 1..2 : invocations[j].status # EXIT_SUCCESS

\* C23: every invocation of the SQL client made during Create, retries
\* included, has no database argument.
C23_CreateSelectsNoDatabase ==
    op = "Create" => \A j \in 1..Len(invocations) : invocations[j].database = ""

====
